---------------------------- MODULE Spec2Model ----------------------------
(***************************************************************************)
(* A model of the retrieval-augmented chatbot: the batch pipeline that     *)
(* saves a vector index and uploads it to object storage                   *)
(* (data_pipeline/process_data.py) and the web service that downloads the  *)
(* index at startup, answers /chat and records /feedback                   *)
(* (model_service/main.py).                                                *)
(*                                                                         *)
(* Text is modelled as sequences of one-character strings, so that prefix  *)
(* tests, slicing and stripping are computed as the code computes them.    *)
(* A call that loads a model, reads or writes files, or reaches storage    *)
(* either returns or raises; which of the two is a nondeterministic choice *)
(* of the step that makes the call.                                        *)
(***************************************************************************)
EXTENDS Integers, Sequences, FiniteSets, TLC

VARIABLES
  \* ---- environment configuration, read once at import time
  S3_BUCKET,            \* main.py:18, "None" when the variable is absent
  S3_FAISS_PREFIX,      \* main.py:19, the service's key prefix
  DYNAMODB_TABLE,       \* main.py:20, "None" when the variable is absent
  PIPELINE_PREFIX,      \* process_data.py:10, the pipeline's key prefix
  \* ---- object storage and the feedback table
  s3,                   \* the bucket: key -> run whose content the object holds
  puts,                 \* the put_item calls made on the feedback table
  \* ---- the pipeline process
  pipe_pc,              \* position of main() in process_data.py
  run,                  \* number of pipeline runs started so far
  faiss_index_local,    \* LOCAL_FAISS_PATH: file name -> run that wrote it
  todo,                 \* entries of os.listdir not yet uploaded
  upload_log,           \* file names of the "Uploaded ..." lines printed so far
  \* ---- the service process
  qa_chain,             \* main.py:47
  tokenizer,            \* main.py:48
  svc_pc,               \* position of startup_event
  svc_err,              \* the exception startup_event raised, "None" if none
  loaded_models,        \* models constructed by startup_event
  s3_calls,             \* S3 API calls made by the service
  page,                 \* Contents of the listing download_faiss_from_s3 got
  page_idx,             \* index of the next entry of page to handle
  listed_uploads,       \* history: upload_log at the time page was listed
  local_index_dir,      \* <tmp>/faiss_index: relative path -> run
  vectorstore,          \* the files FAISS.load_local read, "None" before
  \* ---- /chat and /feedback
  req,                  \* the /chat requests: position, query, result, response
  qa_calls,             \* number of invocations of qa_chain
  PROMPT_TOKENS_COUNTER,
  COMPLETION_TOKENS_COUNTER,
  fb_req,               \* the last /feedback request body
  fb_resp,              \* the response to it
  fb_count,             \* number of /feedback requests handled
  \* ---- one call of simple_qa on its own
  llm_in,               \* question, retrieved documents, generator outcome
  llm_out               \* what LocalLLM.__call__ and simple_qa returned

cfg_vars == <<S3_BUCKET, S3_FAISS_PREFIX, DYNAMODB_TABLE, PIPELINE_PREFIX>>
pipe_vars == <<pipe_pc, run, faiss_index_local, todo, upload_log>>
start_vars == <<qa_chain, tokenizer, svc_pc, svc_err, loaded_models, s3_calls,
                page, page_idx, listed_uploads, local_index_dir, vectorstore>>
chat_vars == <<req, qa_calls, PROMPT_TOKENS_COUNTER, COMPLETION_TOKENS_COUNTER>>
fb_vars == <<puts, fb_req, fb_resp, fb_count>>
llm_vars == <<llm_in, llm_out>>
vars == <<cfg_vars, s3, pipe_vars, start_vars, chat_vars, fb_vars, llm_vars>>

----------------------------------------------------------------------------
(* Bounds of the model *)

\* pipeline runs explored
MaxRuns == 2
\* /chat requests explored
MaxChats == 2
\* /feedback requests explored
MaxFeedback == 1
\* longest body the text generator produces in the stand-alone simple_qa check
MaxGenLen == 202

----------------------------------------------------------------------------
(* Text *)

Min(a, b) == IF a < b THEN a ELSE b

\* s.startswith(p)
StartsWith(s, p) == Len(s) >= Len(p) /\ SubSeq(s, 1, Len(p)) = p

\* s.endswith(p)
EndsWith(s, p) == Len(s) >= Len(p) /\ SubSeq(s, Len(s) - Len(p) + 1, Len(s)) = p

\* s[n:]
DropFirst(s, n) == SubSeq(s, Min(n, Len(s)) + 1, Len(s))

\* s[:n]
TakeFirst(s, n) == SubSeq(s, 1, Min(n, Len(s)))

IsSpace(c) == c \in {" ", "\n", "\t"}

RECURSIVE LStrip(_)
LStrip(s) == IF s # <<>> /\ IsSpace(Head(s)) THEN LStrip(Tail(s)) ELSE s

RECURSIVE RStrip(_)
RStrip(s) ==
  IF s # <<>> /\ IsSpace(s[Len(s)]) THEN RStrip(SubSeq(s, 1, Len(s) - 1)) ELSE s

\* s.strip()
Strip(s) == RStrip(LStrip(s))

\* n copies of the character c
Fill(c, n) == [i \in 1..n |-> c]

\* sep.join(parts)
RECURSIVE Join(_, _)
Join(parts, sep) ==
  IF parts = <<>> THEN <<>>
  ELSE IF Len(parts) = 1 THEN parts[1]
  ELSE parts[1] \o sep \o Join(Tail(parts), sep)

----------------------------------------------------------------------------
(* LocalLLM and simple_qa (model_service/main.py) *)

\* the slice length of generated_text[:200]
AnswerLimit == 200

DefaultAnswer ==
  <<"I"," ","u","n","d","e","r","s","t","a","n","d"," ","y","o","u","r"," ",
    "q","u","e","s","t","i","o","n","."," ","L","e","t"," ","m","e"," ","h",
    "e","l","p"," ","y","o","u"," ","w","i","t","h"," ","t","h","a","t",".">>

ExceptionAnswer ==
  <<"I"," ","c","a","n"," ","h","e","l","p"," ","y","o","u"," ","w","i","t",
    "h"," ","y","o","u","r"," ","q","u","e","s","t","i","o","n","."," ","P",
    "l","e","a","s","e"," ","p","r","o","v","i","d","e"," ","m","o","r","e",
    " ","d","e","t","a","i","l","s",".">>

KnowledgeBaseAnswer ==
  <<"I"," ","c","a","n"," ","h","e","l","p"," ","y","o","u"," ","w","i","t",
    "h"," ","I","T"," ","s","u","p","p","o","r","t"," ","q","u","e","s","t",
    "i","o","n","s"," ","b","a","s","e","d"," ","o","n"," ","o","u","r"," ",
    "k","n","o","w","l","e","d","g","e"," ","b","a","s","e",".">>

ContextTag == <<"C","o","n","t","e","x","t",":"," ">>

QuestionTag == <<"\n","\n","Q","u","e","s","t","i","o","n",":"," ">>

AnswerTag == <<"\n","\n","A","n","s","w","e","r",":">>

\* prompt = f"Context: {context}\n\nQuestion: {question}\n\nAnswer:"
Prompt(docs, question) ==
  ContextTag \o Join(docs, <<"\n">>) \o QuestionTag \o question \o AnswerTag

\* An outcome of self.text_generator(prompt, ...): it raises, or it returns
\* response[0]['generated_text'] = text.
Raised == [raises |-> TRUE, text |-> <<>>]
Generated(text) == [raises |-> FALSE, text |-> text]

\* LocalLLMCall without the default: an empty generation is returned as it is
LocalLLMCallNoDefault(prompt, gen) ==
  IF gen.raises THEN ExceptionAnswer
  ELSE LET generated_text ==
             IF StartsWith(gen.text, prompt)
             THEN Strip(DropFirst(gen.text, Len(prompt)))
             ELSE gen.text
       IN TakeFirst(generated_text, AnswerLimit)

\* LocalLLM.__call__(prompt), gen being what the text generator did
LocalLLMCall(prompt, gen) ==
  IF gen.raises THEN ExceptionAnswer
  ELSE LET generated_text ==
             IF StartsWith(gen.text, prompt)
             THEN Strip(DropFirst(gen.text, Len(prompt)))
             ELSE gen.text
       IN IF generated_text # <<>>
          THEN TakeFirst(generated_text, AnswerLimit)
          ELSE DefaultAnswer

\* simple_qa(question) once similarity_search returned docs: the response of
\* the model, and whether the `if response else` fallback was taken
SimpleQA(question, docs, gen) ==
  LET response == LocalLLMCall(Prompt(docs, question), gen)
  IN [response |-> response,
      fallback |-> (response = <<>>),
      answer   |-> IF response # <<>> THEN response ELSE KnowledgeBaseAnswer]

\* tokenizer.encode(text), abstracted to GPT-2's pre-tokenisation: a token is
\* one character followed by the non-space characters after it, so that a
\* space starts the token of the word that follows it.
RECURSIVE WordEnd(_, _)
WordEnd(text, i) ==
  IF i < Len(text) /\ ~IsSpace(text[i + 1]) THEN WordEnd(text, i + 1) ELSE i

RECURSIVE Encode(_)
Encode(text) ==
  IF text = <<>> THEN <<>>
  ELSE LET n == WordEnd(text, 1)
       IN <<SubSeq(text, 1, n)>> \o Encode(DropFirst(text, n))

----------------------------------------------------------------------------
(* Object storage keys *)

\* the default of S3_FAISS_PREFIX, and a second prefix that extends it
DefaultPrefix == <<"f","a","i","s","s","_","i","n","d","e","x">>

OtherPrefix == DefaultPrefix \o <<"_","v","2">>

Prefixes == {DefaultPrefix, OtherPrefix}

\* the files FAISS.save_local writes: the index and its docstore, and with
\* some library versions one more file
IndexFaiss == <<"i","n","d","e","x",".","f","a","i","s","s">>

IndexPkl == <<"i","n","d","e","x",".","p","k","l">>

IndexExtra == <<"i","n","d","e","x",".","j","s","o","n">>

RequiredFiles == {IndexFaiss, IndexPkl}

IndexFileSets == {RequiredFiles, RequiredFiles \cup {IndexExtra}}

\* a key that leaves the prefix out
BareKey(prefix, file_name) == file_name

\* s3_key = f"{S3_FAISS_PREFIX}/{file_name}"
S3Key(prefix, file_name) == prefix \o <<"/">> \o file_name

\* prefix = f"{S3_FAISS_PREFIX}/"
ListPrefix(faiss_prefix) == faiss_prefix \o <<"/">>

\* the characters of keys, in code point order
Alphabet ==
  <<".","/","2","_","a","d","e","f","i","j","k","l","n","o","p","s","v","x">>

Rank(c) == CHOOSE i \in 1..Len(Alphabet) : Alphabet[i] = c

\* a < b in the order object storage lists keys in
RECURSIVE KeyLess(_, _)
KeyLess(a, b) ==
  IF b = <<>> THEN FALSE
  ELSE IF a = <<>> THEN TRUE
  ELSE IF Head(a) = Head(b) THEN KeyLess(Tail(a), Tail(b))
  ELSE Rank(Head(a)) < Rank(Head(b))

RECURSIVE SortKeys(_)
SortKeys(keys) ==
  IF keys = {} THEN <<>>
  ELSE LET first == CHOOSE k \in keys : \A o \in keys \ {k} : KeyLess(k, o)
       IN <<first>> \o SortKeys(keys \ {first})

\* ListObjects without the "/" that ends the prefix
ListObjectsBarePrefix(bucket, faiss_prefix) ==
  SortKeys({k \in DOMAIN bucket : StartsWith(k, faiss_prefix)})

\* paginator.paginate(Bucket=S3_BUCKET, Prefix=prefix): the keys under prefix
ListObjects(bucket, faiss_prefix) ==
  SortKeys({k \in DOMAIN bucket : StartsWith(k, ListPrefix(faiss_prefix))})

\* rel = key[len(prefix):]
Rel(key, faiss_prefix) == DropFirst(key, Len(ListPrefix(faiss_prefix)))

\* a directory or a bucket with nothing in it
Empty == [k \in {} |-> 0]

\* directory d after files were written into it by run n
Written(d, files, n) ==
  [f \in DOMAIN d \cup files |-> IF f \in files THEN n ELSE d[f]]

----------------------------------------------------------------------------
(* The pipeline: main() of data_pipeline/process_data.py *)

\* Lines 15-45 and the os.listdir of line 49: load the CSV, split, embed, and
\* save the index into LOCAL_FAISS_PATH, which is created if it is missing
\* and is never emptied; a run in a new checkout starts without it.
PipelineBuild ==
  /\ pipe_pc \in {"idle", "done", "aborted"}
  /\ run < MaxRuns
  /\ \/ \E files \in IndexFileSets, fresh \in BOOLEAN :
          /\ run' = run + 1
          /\ faiss_index_local' =
               Written(IF fresh THEN Empty ELSE faiss_index_local, files, run')
          /\ todo' = DOMAIN faiss_index_local'
          /\ pipe_pc' = "upload"
     \/ \* read_csv, the ValueError of line 35, or a library call raises
        /\ run' = run + 1
        /\ pipe_pc' = "aborted"
        /\ UNCHANGED <<faiss_index_local, todo>>
  /\ UNCHANGED <<cfg_vars, s3, upload_log, start_vars, chat_vars, fb_vars, llm_vars>>

\* One iteration of the loop of lines 49-53, in the order os.listdir gave.
PipelineUpload ==
  /\ pipe_pc = "upload"
  /\ \E file_name \in todo :
       \/ /\ s3' = Written(s3, {S3Key(PIPELINE_PREFIX, file_name)},
                           faiss_index_local[file_name])
          /\ upload_log' = upload_log \cup {file_name}
          /\ todo' = todo \ {file_name}
          /\ UNCHANGED pipe_pc
       \/ \* upload_file raises: main() ends, the other files are not uploaded
          /\ pipe_pc' = "aborted"
          /\ todo' = {}
          /\ UNCHANGED <<s3, upload_log>>
  /\ UNCHANGED <<cfg_vars, run, faiss_index_local, start_vars, chat_vars,
                 fb_vars, llm_vars>>

\* Line 55: the loop is over.
PipelineDone ==
  /\ pipe_pc = "upload"
  /\ todo = {}
  /\ pipe_pc' = "done"
  /\ UNCHANGED <<cfg_vars, s3, run, faiss_index_local, todo, upload_log,
                 start_vars, chat_vars, fb_vars, llm_vars>>

----------------------------------------------------------------------------
(* Service startup: startup_event and download_faiss_from_s3 (main.py) *)

\* the truth value Python gives an environment value or a global
Truthy(x) == x \notin {"None", ""}

\* a test for None alone, which lets the empty string through
IsNotNone(x) == x # "None"

\* `if not S3_BUCKET` of line 76
BucketConfigured(bucket_name) == Truthy(bucket_name)

NotLoaded == [loaded |-> FALSE, files |-> Empty]

\* startup_event ends with an exception: nothing after the raising line runs
StartupRaises(exception) ==
  /\ svc_pc' = "failed"
  /\ svc_err' = exception

\* Lines 76-77.
StartupCheckBucket ==
  /\ svc_pc = "boot"
  /\ \/ /\ ~BucketConfigured(S3_BUCKET)
        /\ StartupRaises("RuntimeError")
     \/ /\ BucketConfigured(S3_BUCKET)
        /\ svc_pc' = "tokenizer"
        /\ UNCHANGED svc_err
  /\ UNCHANGED <<cfg_vars, s3, pipe_vars, qa_chain, tokenizer, loaded_models,
                 s3_calls, page, page_idx, listed_uploads, local_index_dir,
                 vectorstore, chat_vars, fb_vars, llm_vars>>

\* Line 80.
StartupLoadTokenizer ==
  /\ svc_pc = "tokenizer"
  /\ \/ /\ tokenizer' = "distilgpt2"
        /\ loaded_models' = loaded_models \cup {"tokenizer"}
        /\ svc_pc' = "embeddings"
        /\ UNCHANGED svc_err
     \/ /\ StartupRaises("Exception")
        /\ UNCHANGED <<tokenizer, loaded_models>>
  /\ UNCHANGED <<cfg_vars, s3, pipe_vars, qa_chain, s3_calls, page, page_idx,
                 listed_uploads, local_index_dir, vectorstore, chat_vars,
                 fb_vars, llm_vars>>

\* Line 83.
StartupLoadEmbeddings ==
  /\ svc_pc = "embeddings"
  /\ \/ /\ loaded_models' = loaded_models \cup {"embed_model"}
        /\ svc_pc' = "list"
        /\ UNCHANGED svc_err
     \/ /\ StartupRaises("Exception")
        /\ UNCHANGED loaded_models
  /\ UNCHANGED <<cfg_vars, s3, pipe_vars, qa_chain, tokenizer, s3_calls, page,
                 page_idx, listed_uploads, local_index_dir, vectorstore,
                 chat_vars, fb_vars, llm_vars>>

\* the Contents of a listing: each object's key and the content it had then
Contents(bucket, keys) ==
  [i \in 1..Len(keys) |-> [Key |-> keys[i], ETag |-> bucket[keys[i]]]]

\* Lines 86-88 and 58-61: the local directory is created if it is missing and
\* the objects under the prefix are listed.
StartupList ==
  /\ svc_pc = "list"
  /\ s3_calls' = s3_calls + 1
  /\ \/ /\ page' = Contents(s3, ListObjects(s3, S3_FAISS_PREFIX))
        /\ page_idx' = 1
        /\ listed_uploads' = upload_log
        /\ svc_pc' = "download"
        /\ UNCHANGED svc_err
     \/ /\ StartupRaises("Exception")
        /\ UNCHANGED <<page, page_idx, listed_uploads>>
  /\ UNCHANGED <<cfg_vars, s3, pipe_vars, qa_chain, tokenizer, loaded_models,
                 local_index_dir, vectorstore, chat_vars, fb_vars, llm_vars>>

\* what s3.download_file(S3_BUCKET, key, dest_path) writes when the object is
\* fetched as it was listed
ListedObject(obj) == obj.ETag

\* what s3.download_file(S3_BUCKET, key, dest_path) writes: the object the
\* bucket holds under the key when the call is made
FetchedObject(obj) == s3[obj.Key]

\* Lines 62-69: one iteration of the loop over the listing.
StartupDownload ==
  /\ svc_pc = "download"
  /\ page_idx <= Len(page)
  /\ LET obj == page[page_idx]
         key == obj.Key
     IN \/ /\ EndsWith(key, <<"/">>)
           /\ page_idx' = page_idx + 1
           /\ UNCHANGED <<svc_pc, svc_err, s3_calls, local_index_dir>>
        \/ /\ ~EndsWith(key, <<"/">>)
           /\ s3_calls' = s3_calls + 1
           /\ \/ /\ local_index_dir' =
                      Written(local_index_dir, {Rel(key, S3_FAISS_PREFIX)},
                              FetchedObject(obj))
                 /\ page_idx' = page_idx + 1
                 /\ UNCHANGED <<svc_pc, svc_err>>
              \/ /\ StartupRaises("Exception")
                 /\ UNCHANGED <<page_idx, local_index_dir>>
  /\ UNCHANGED <<cfg_vars, s3, pipe_vars, qa_chain, tokenizer, loaded_models,
                 page, listed_uploads, vectorstore, chat_vars, fb_vars, llm_vars>>

\* StartupLoadIndex with the failure of load_local caught and passed over
StartupLoadIndexLenient ==
  /\ svc_pc = "download"
  /\ page_idx > Len(page)
  /\ \/ /\ RequiredFiles \subseteq DOMAIN local_index_dir
        /\ vectorstore' = [loaded |-> TRUE, files |-> local_index_dir]
     \/ UNCHANGED vectorstore
  /\ svc_pc' = "llm"
  /\ UNCHANGED <<cfg_vars, s3, pipe_vars, qa_chain, tokenizer, svc_err,
                 loaded_models, s3_calls, page, page_idx, listed_uploads,
                 local_index_dir, chat_vars, fb_vars, llm_vars>>

\* Line 89: FAISS.load_local reads the index and its docstore from the local
\* directory; it raises when one of them is missing, and may raise otherwise.
StartupLoadIndex ==
  /\ svc_pc = "download"
  /\ page_idx > Len(page)
  /\ \/ /\ RequiredFiles \subseteq DOMAIN local_index_dir
        /\ vectorstore' = [loaded |-> TRUE, files |-> local_index_dir]
        /\ svc_pc' = "llm"
        /\ UNCHANGED svc_err
     \/ /\ StartupRaises("Exception")
        /\ UNCHANGED vectorstore
  /\ UNCHANGED <<cfg_vars, s3, pipe_vars, qa_chain, tokenizer, loaded_models,
                 s3_calls, page, page_idx, listed_uploads, local_index_dir,
                 chat_vars, fb_vars, llm_vars>>

\* Line 92.
StartupInitLLM ==
  /\ svc_pc = "llm"
  /\ \/ /\ loaded_models' = loaded_models \cup {"text_generator"}
        /\ svc_pc' = "assign"
        /\ UNCHANGED svc_err
     \/ /\ StartupRaises("Exception")
        /\ UNCHANGED loaded_models
  /\ UNCHANGED <<cfg_vars, s3, pipe_vars, qa_chain, tokenizer, s3_calls, page,
                 page_idx, listed_uploads, local_index_dir, vectorstore,
                 chat_vars, fb_vars, llm_vars>>

\* Line 110.
StartupAssign ==
  /\ svc_pc = "assign"
  /\ qa_chain' = "simple_qa"
  /\ svc_pc' = "ready"
  /\ UNCHANGED <<cfg_vars, s3, pipe_vars, tokenizer, svc_err, loaded_models,
                 s3_calls, page, page_idx, listed_uploads, local_index_dir,
                 vectorstore, chat_vars, fb_vars, llm_vars>>

----------------------------------------------------------------------------
(* POST /chat (main.py:139-154) *)

Requests == 1..MaxChats

\* the queries sent: the empty string and a two-word question
Queries == {<<>>, <<"v","p","n"," ","d","o","w","n">>}

\* the chunks similarity_search(question, k=3) may return
Chunk == <<"r","e","s","t","a","r","t"," ","i","t">>

DocLists == {<<>>, <<Chunk>>, <<Chunk, Chunk, Chunk>>}

\* what the text generator may do with a prompt: raise, echo the prompt and
\* add nothing but white space, or echo it and add text
Generations(prompt) ==
  {Raised,
   Generated(prompt \o <<" ", "\n">>),
   Generated(prompt \o <<" ", "o", "k", " ">>)}

NoResponse == [status |-> 0, detail |-> "", answer |-> <<>>, query_id |-> <<>>]

\* raise HTTPException(status_code=..., detail=...), and an exception that
\* leaves the handler, which the framework answers with status 500
HTTPError(status_code, detail) ==
  [status |-> status_code, detail |-> detail, answer |-> <<>>, query_id |-> <<>>]

Unhandled == HTTPError(500, "Internal Server Error")

\* str(uuid.uuid4()) of request r: a value no other request gets
Uuid4(r) == <<"uuid", r>>

NewRequest == [pc |-> "idle", query |-> <<>>, result |-> <<>>, response |-> NoResponse]

\* `not (qa_chain and tokenizer)`: rejects only when both are unset
BothUnset(chain, tok) == ~Truthy(chain) /\ ~Truthy(tok)

\* `if not qa_chain or not tokenizer` of line 141
Initializing(chain, tok) == ~Truthy(chain) \/ ~Truthy(tok)

\* Lines 141-142: request r arrives with some query; requests are numbered in
\* the order in which they arrive.
ChatCheck(r) ==
  /\ req[r].pc = "idle"
  /\ \A earlier \in 1..(r - 1) : req[earlier].pc # "idle"
  /\ \E query \in Queries :
       IF Initializing(qa_chain, tokenizer)
       THEN req' = [req EXCEPT ![r].pc = "done", ![r].query = query,
                               ![r].response = HTTPError(503, "Service initializing")]
       ELSE req' = [req EXCEPT ![r].pc = "count_prompt", ![r].query = query]
  /\ UNCHANGED <<cfg_vars, s3, pipe_vars, start_vars, qa_calls,
                 PROMPT_TOKENS_COUNTER, COMPLETION_TOKENS_COUNTER, fb_vars, llm_vars>>

\* ChatCountPrompt with the counter left alone
ChatSkipPromptCount(r) ==
  /\ req[r].pc = "count_prompt"
  /\ req' = [req EXCEPT ![r].pc = "call_qa"]
  /\ UNCHANGED <<cfg_vars, s3, pipe_vars, start_vars, qa_calls,
                 PROMPT_TOKENS_COUNTER, COMPLETION_TOKENS_COUNTER, fb_vars,
                 llm_vars>>

\* Lines 145-146.
ChatCountPrompt(r) ==
  /\ req[r].pc = "count_prompt"
  /\ PROMPT_TOKENS_COUNTER' = PROMPT_TOKENS_COUNTER + Len(Encode(req[r].query))
  /\ req' = [req EXCEPT ![r].pc = "call_qa"]
  /\ UNCHANGED <<cfg_vars, s3, pipe_vars, start_vars, qa_calls,
                 COMPLETION_TOKENS_COUNTER, fb_vars, llm_vars>>

\* Line 149, simple_qa of lines 95-107: similarity_search returns documents
\* or raises; an exception leaves chat() unhandled.
ChatCallQA(r) ==
  /\ req[r].pc = "call_qa"
  /\ qa_calls' = qa_calls + 1
  /\ \/ \E docs \in DocLists :
          \E gen \in Generations(Prompt(docs, req[r].query)) :
             req' = [req EXCEPT ![r].pc = "count_completion",
                                ![r].result = SimpleQA(req[r].query, docs, gen).answer]
     \/ req' = [req EXCEPT ![r].pc = "done", ![r].response = Unhandled]
  /\ UNCHANGED <<cfg_vars, s3, pipe_vars, start_vars, PROMPT_TOKENS_COUNTER,
                 COMPLETION_TOKENS_COUNTER, fb_vars, llm_vars>>

\* Lines 151-154.
ChatFinish(r) ==
  /\ req[r].pc = "count_completion"
  /\ COMPLETION_TOKENS_COUNTER' =
       COMPLETION_TOKENS_COUNTER + Len(Encode(req[r].result))
  /\ req' = [req EXCEPT ![r].pc = "done",
                        ![r].response = [status |-> 200, detail |-> "",
                                         answer |-> req[r].result,
                                         query_id |-> Uuid4(r)]]
  /\ UNCHANGED <<cfg_vars, s3, pipe_vars, start_vars, qa_calls,
                 PROMPT_TOKENS_COUNTER, fb_vars, llm_vars>>

----------------------------------------------------------------------------
(* POST /feedback (main.py:157-163) *)

\* the request bodies sent: a good verdict on the first /chat answer, and a
\* bad verdict under an id that /chat never issued
FeedbackBodies ==
  {[query_id |-> Uuid4(1), query |-> <<"v","p","n"," ","d","o","w","n">>,
    answer |-> DefaultAnswer, is_correct |-> TRUE],
   [query_id |-> Uuid4(0), query |-> <<"v","p","n"," ","d","o","w","n">>,
    answer |-> DefaultAnswer, is_correct |-> FALSE]}

NoBody == [query_id |-> <<>>, query |-> <<>>, answer |-> <<>>, is_correct |-> FALSE]

Recorded == [status |-> 200, detail |-> "Feedback recorded"]

NotConfigured == [status |-> 500, detail |-> "DynamoDB table not configured"]

PutFailed == [status |-> 500, detail |-> "Internal Server Error"]

NoFeedbackResponse == [status |-> 0, detail |-> ""]

\* a dict that leaves the verdict out
DictWithoutFlag(body) ==
  [query_id |-> body.query_id, query |-> body.query, answer |-> body.answer]

\* req.dict() of a FeedbackRequest (lines 127-131)
Dict(body) ==
  [query_id |-> body.query_id, query |-> body.query, answer |-> body.answer,
   is_correct |-> body.is_correct]

\* `if not DYNAMODB_TABLE` of line 159
TableConfigured(table_name) == Truthy(table_name)

\* Lines 158-163: one request; put_item returns or raises.
Feedback ==
  /\ fb_count < MaxFeedback
  /\ fb_count' = fb_count + 1
  /\ \E body \in FeedbackBodies :
       /\ fb_req' = body
       /\ IF ~TableConfigured(DYNAMODB_TABLE)
          THEN /\ fb_resp' = NotConfigured
               /\ UNCHANGED puts
          ELSE /\ puts' = Append(puts, [TableName |-> DYNAMODB_TABLE,
                                        Item |-> Dict(body)])
               /\ fb_resp' \in {Recorded, PutFailed}
  /\ UNCHANGED <<cfg_vars, s3, pipe_vars, start_vars, chat_vars, llm_vars>>

----------------------------------------------------------------------------
(* One call of simple_qa with arbitrary retrieval and generation results *)

\* generated texts: the prompt echoed or not, then white space or not, then
\* n characters, then white space or not
GeneratedTexts(prompt) ==
  {echo \o lead \o Fill("x", n) \o trail :
     echo \in {<<>>, prompt}, lead \in {<<>>, <<" ">>},
     n \in 0..MaxGenLen, trail \in {<<>>, <<"\n">>}}

NoInput == [question |-> <<>>, docs |-> <<>>, gen |-> Raised]

NoOutput == [returned |-> FALSE, response |-> <<>>, fallback |-> FALSE, answer |-> <<>>]

\* simple_qa(question) is called and returns.
CallSimpleQA ==
  /\ ~llm_out.returned
  /\ LET out == SimpleQA(llm_in.question, llm_in.docs, llm_in.gen)
     IN llm_out' = [returned |-> TRUE, response |-> out.response,
                    fallback |-> out.fallback, answer |-> out.answer]
  /\ UNCHANGED <<cfg_vars, s3, pipe_vars, start_vars, chat_vars, fb_vars, llm_in>>

----------------------------------------------------------------------------
(* Initial states and specifications *)

BucketName == "llmops-knowledge-base"

\* the pipeline has not run
PipelineIdle ==
  /\ pipe_pc = "idle"
  /\ run = 0
  /\ faiss_index_local = Empty
  /\ todo = {}
  /\ upload_log = {}

\* the service process has been started and startup_event not yet entered
ServiceBoot ==
  /\ qa_chain = "None"
  /\ tokenizer = "None"
  /\ svc_pc = "boot"
  /\ svc_err = "None"
  /\ loaded_models = {}
  /\ s3_calls = 0
  /\ page = <<>>
  /\ page_idx = 1
  /\ listed_uploads = {}
  /\ local_index_dir = Empty
  /\ vectorstore = NotLoaded

NoTraffic ==
  /\ req = [r \in Requests |-> NewRequest]
  /\ qa_calls = 0
  /\ PROMPT_TOKENS_COUNTER = 0
  /\ COMPLETION_TOKENS_COUNTER = 0
  /\ puts = <<>>
  /\ fb_req = NoBody
  /\ fb_resp = NoFeedbackResponse
  /\ fb_count = 0

NoCall ==
  /\ llm_in = NoInput
  /\ llm_out = NoOutput

\* The service, in a bucket that is empty or holds a folder marker at the
\* prefix and the index of a completed pipeline run, under any setting of the
\* bucket and table variables.
Init ==
  /\ S3_BUCKET \in {"None", "", BucketName}
  /\ DYNAMODB_TABLE \in {"None", "", "feedback"}
  /\ S3_FAISS_PREFIX = DefaultPrefix
  /\ PIPELINE_PREFIX = DefaultPrefix
  /\ \/ /\ PipelineIdle
        /\ s3 = Empty
     \/ /\ pipe_pc = "done"
        /\ run = 1
        /\ faiss_index_local = Written(Empty, RequiredFiles, 1)
        /\ todo = {}
        /\ upload_log = RequiredFiles
        /\ s3 = Written(Written(Empty, {ListPrefix(DefaultPrefix)}, 0),
                         {S3Key(DefaultPrefix, f) : f \in RequiredFiles}, 1)
  /\ ServiceBoot
  /\ NoTraffic
  /\ NoCall

Startup ==
  \/ StartupCheckBucket
  \/ StartupLoadTokenizer
  \/ StartupLoadEmbeddings
  \/ StartupList
  \/ StartupDownload
  \/ StartupLoadIndex
  \/ StartupInitLLM
  \/ StartupAssign

Next ==
  \/ Startup
  \/ \E r \in Requests : ChatCheck(r)
  \/ \E r \in Requests : ChatCountPrompt(r)
  \/ \E r \in Requests : ChatCallQA(r)
  \/ \E r \in Requests : ChatFinish(r)
  \/ Feedback

Spec == Init /\ [][Next]_vars

\* The pipeline and a service startup side by side, on a bucket that is empty
\* or holds the folder marker of the service's prefix.
InitIndex ==
  /\ S3_BUCKET = BucketName
  /\ DYNAMODB_TABLE = "None"
  /\ S3_FAISS_PREFIX \in Prefixes
  /\ PIPELINE_PREFIX \in Prefixes
  /\ s3 \in {Empty, Written(Empty, {ListPrefix(S3_FAISS_PREFIX)}, 0)}
  /\ PipelineIdle
  /\ ServiceBoot
  /\ NoTraffic
  /\ NoCall

NextIndex ==
  \/ PipelineBuild
  \/ PipelineUpload
  \/ PipelineDone
  \/ Startup

SpecIndex == InitIndex /\ [][NextIndex]_vars

\* simple_qa alone, on every question, retrieval result and generation.
InitLLM ==
  /\ S3_BUCKET = BucketName
  /\ DYNAMODB_TABLE = "None"
  /\ S3_FAISS_PREFIX = DefaultPrefix
  /\ PIPELINE_PREFIX = DefaultPrefix
  /\ s3 = Empty
  /\ PipelineIdle
  /\ ServiceBoot
  /\ NoTraffic
  /\ \E question \in Queries, docs \in DocLists :
       \E gen \in {Raised} \cup
                  {Generated(t) : t \in GeneratedTexts(Prompt(docs, question))} :
          llm_in = [question |-> question, docs |-> docs, gen |-> gen]
  /\ llm_out = NoOutput

NextLLM == CallSimpleQA

SpecLLM == InitLLM /\ [][NextLLM]_vars

----------------------------------------------------------------------------
(* Properties *)

RECURSIVE Sum(_, _)
\* the sum of f[x] over the x of set S
Sum(f, S) ==
  IF S = {} THEN 0
  ELSE LET x == CHOOSE y \in S : TRUE IN f[x] + Sum(f, S \ {x})

Unset(x) == x = "None" \/ x = ""

ServiceInitializing == HTTPError(503, "Service initializing")

\* C1: a /chat request that arrives while qa_chain or tokenizer is unset is
\* answered 503 "Service initializing" in that step, without a call of the QA
\* function and without a change of either token counter; and qa_chain is
\* unset in every state in which startup has not completed.
C1_ChatRejectedWhileInitializing ==
  [][/\ (svc_pc # "ready" => qa_chain = "None")
     /\ \A r \in Requests :
          (/\ req[r].pc = "idle"
           /\ req'[r] # req[r]
           /\ (qa_chain = "None" \/ tokenizer = "None"))
          => /\ req'[r].pc = "done"
             /\ req'[r].response = ServiceInitializing
             /\ qa_calls' = qa_calls
             /\ PROMPT_TOKENS_COUNTER' = PROMPT_TOKENS_COUNTER
             /\ COMPLETION_TOKENS_COUNTER' = COMPLETION_TOKENS_COUNTER]_vars

\* a request was answered 503 and the service is in the window in which the
\* tokenizer is set and qa_chain is not
C1_Witness ==
  /\ tokenizer # "None"
  /\ qa_chain = "None"
  /\ svc_pc = "download"
  /\ \E r \in Requests : req[r].response = ServiceInitializing
  /\ qa_calls = 0

\* C2: with the bucket name absent or empty, startup_event does nothing but
\* raise RuntimeError: no model is loaded, no storage call is made, and
\* qa_chain and tokenizer stay unset.
C2_NoBucketIsFatal ==
  Unset(S3_BUCKET) =>
    /\ svc_pc \in {"boot", "failed"}
    /\ (svc_pc = "failed" => svc_err = "RuntimeError")
    /\ loaded_models = {}
    /\ s3_calls = 0
    /\ page = <<>>
    /\ local_index_dir = Empty
    /\ qa_chain = "None"
    /\ tokenizer = "None"

\* startup has failed on an empty bucket name
C2_Witness == S3_BUCKET = "" /\ svc_pc = "failed" /\ svc_err = "RuntimeError"

\* C3: with the feedback table name unset, every /feedback request is
\* answered 500 "DynamoDB table not configured" and no put is made, in every
\* state of the startup sequence.
C3_FeedbackWithoutTable ==
  [][(Unset(DYNAMODB_TABLE) /\ fb_count' # fb_count)
       => /\ fb_resp' = [status |-> 500, detail |-> "DynamoDB table not configured"]
          /\ puts' = puts
          /\ puts = <<>>]_vars

\* the configuration error was returned by a service whose startup completed
C3_Witness ==
  /\ Unset(DYNAMODB_TABLE)
  /\ fb_resp.status = 500
  /\ fb_count > 0
  /\ svc_pc = "ready"
  /\ qa_chain # "None"

\* C4: with the feedback table configured, a /feedback request makes exactly
\* one put_item call, on that table, of the item that holds the request's
\* query_id, query, answer and is_correct and nothing else; it is answered
\* {"status": "Feedback recorded"} when put_item returns (500 when put_item
\* raises); the query_id may be any; qa_chain, tokenizer and both token
\* counters are left as they were.
C4_FeedbackPutsOneItem ==
  [][(~Unset(DYNAMODB_TABLE) /\ fb_count' # fb_count)
       => /\ Len(puts') = Len(puts) + 1
          /\ SubSeq(puts', 1, Len(puts)) = puts
          /\ puts'[Len(puts')] =
               [TableName |-> DYNAMODB_TABLE,
                Item |-> [query_id |-> fb_req'.query_id, query |-> fb_req'.query,
                          answer |-> fb_req'.answer,
                          is_correct |-> fb_req'.is_correct]]
          /\ fb_resp' \in {[status |-> 200, detail |-> "Feedback recorded"],
                           [status |-> 500, detail |-> "Internal Server Error"]}
          /\ UNCHANGED <<qa_chain, tokenizer, PROMPT_TOKENS_COUNTER,
                         COMPLETION_TOKENS_COUNTER>>]_vars

\* feedback for a query_id that /chat never issued was recorded, after /chat
\* had counted tokens
C4_Witness ==
  /\ fb_resp = Recorded
  /\ fb_req.query_id = Uuid4(0)
  /\ \A r \in Requests : req[r].response.query_id # fb_req.query_id
  /\ Len(puts) = fb_count
  /\ PROMPT_TOKENS_COUNTER > 0
  /\ COMPLETION_TOKENS_COUNTER > 0

\* the objects under the pipeline's prefix, folder markers left out
IndexObjects ==
  {k \in DOMAIN s3 : StartsWith(k, PIPELINE_PREFIX \o <<"/">>) /\ ~EndsWith(k, <<"/">>)}

\* every file of the local index directory has its object, with its content
EveryFileUploaded ==
  \A f \in DOMAIN faiss_index_local :
     /\ PIPELINE_PREFIX \o <<"/">> \o f \in DOMAIN s3
     /\ s3[PIPELINE_PREFIX \o <<"/">> \o f] = faiss_index_local[f]

\* C5 as stated: after a completed run the objects under the prefix are
\* exactly the files of the local index directory.
C5_ExactMirror ==
  pipe_pc = "done" =>
    /\ EveryFileUploaded
    /\ IndexObjects = {PIPELINE_PREFIX \o <<"/">> \o f : f \in DOMAIN faiss_index_local}

\* C5, amended: after a completed run every file of the local index
\* directory has an object at "<prefix>/<f>" with the file's content, and the
\* objects under the prefix are those of the files uploaded by this run or by
\* an earlier one: the pipeline deletes nothing.
C5_MirrorKeepsOldObjects ==
  /\ pipe_pc = "done" => EveryFileUploaded
  /\ IndexObjects = {PIPELINE_PREFIX \o <<"/">> \o f : f \in upload_log}

\* a run has completed whose directory lacks a file that an earlier run
\* uploaded and whose object is still in the bucket
C5_Witness ==
  /\ pipe_pc = "done"
  /\ run = 2
  /\ IndexExtra \notin DOMAIN faiss_index_local
  /\ PIPELINE_PREFIX \o <<"/">> \o IndexExtra \in DOMAIN s3

DownloadOver ==
  /\ svc_pc \in {"download", "llm", "assign", "ready", "failed"}
  /\ page_idx > Len(page)

\* C6: the listing holds only keys under "<prefix>/"; a listed key that ends
\* in "/" is skipped; every other listed key "<prefix>/<rel>" that the loop
\* has handled has been written to rel; and with pipeline and service on the
\* same prefix, the relative paths written by a finished download are the
\* file names the pipeline had uploaded when the listing was taken.
C6_DownloadRoundTrip ==
  /\ \A i \in 1..Len(page) :
        /\ StartsWith(page[i].Key, S3_FAISS_PREFIX \o <<"/">>)
        /\ page[i].Key \in DOMAIN s3
  /\ \A rel \in DOMAIN local_index_dir :
        /\ rel # <<>>
        /\ ~EndsWith(rel, <<"/">>)
        /\ \E i \in 1..(page_idx - 1) : page[i].Key = S3_FAISS_PREFIX \o <<"/">> \o rel
  /\ \A i \in 1..(page_idx - 1) :
        \/ EndsWith(page[i].Key, <<"/">>)
        \/ \E rel \in DOMAIN local_index_dir :
              page[i].Key = S3_FAISS_PREFIX \o <<"/">> \o rel
  /\ (DownloadOver /\ S3_FAISS_PREFIX = PIPELINE_PREFIX)
        => DOMAIN local_index_dir = listed_uploads

\* a download on the pipeline's prefix has finished, it has skipped a folder
\* marker and written the three files that had been uploaded
C6_Witness ==
  /\ DownloadOver
  /\ S3_FAISS_PREFIX = PIPELINE_PREFIX
  /\ \E i \in 1..Len(page) : EndsWith(page[i].Key, <<"/">>)
  /\ Cardinality(DOMAIN local_index_dir) = 3
  /\ DOMAIN local_index_dir = listed_uploads

\* C7: qa_chain is set only when the tokenizer is set, no startup step has
\* raised, every listed object has been handled and the index has been
\* loaded from the downloaded directory; after a step that raised, qa_chain
\* is unset; and the QA function has been called only with the index loaded.
C7_ReadyOnlyAfterLoad ==
  /\ qa_chain # "None" =>
        /\ tokenizer # "None"
        /\ svc_err = "None"
        /\ svc_pc = "ready"
        /\ page_idx > Len(page)
        /\ \A i \in 1..Len(page) :
              \/ EndsWith(page[i].Key, <<"/">>)
              \/ \E rel \in DOMAIN local_index_dir :
                    page[i].Key = S3_FAISS_PREFIX \o <<"/">> \o rel
        /\ vectorstore.loaded
        /\ vectorstore.files = local_index_dir
        /\ {IndexFaiss, IndexPkl} \subseteq DOMAIN vectorstore.files
  /\ (svc_pc = "failed" \/ svc_err # "None") => qa_chain = "None"
  /\ qa_calls > 0 => (qa_chain # "None" /\ vectorstore.loaded)
  /\ \A r \in Requests :
        req[r].pc \notin {"idle", "done"} => (qa_chain # "None" /\ vectorstore.loaded)

\* the service is ready and a request has run the QA function
C7_Witness ==
  /\ qa_chain = "simple_qa"
  /\ qa_calls > 0
  /\ \E r \in Requests : req[r].response.status = 200

\* the generation is empty once the echoed prompt is stripped from it
EmptyGeneration(prompt, gen) ==
  /\ ~gen.raises
  /\ \/ gen.text = <<>>
     \/ /\ StartsWith(gen.text, prompt)
        /\ \A i \in (Len(prompt) + 1)..Len(gen.text) : IsSpace(gen.text[i])

\* C8: LocalLLM.__call__ returns for every prompt and generator outcome: the
\* fixed fallback string when the generator raised, the fixed default string
\* when the generation is empty once the echoed prompt is stripped; what it
\* returns is never empty and never longer than 200 characters, so simple_qa
\* returns it and never takes its own fallback.
C8_LocalLLMAlwaysAnswers ==
  llm_out.returned =>
    /\ llm_out.response # <<>>
    /\ Len(llm_out.response) <= 200
    /\ (llm_in.gen.raises => llm_out.response = ExceptionAnswer)
    /\ (EmptyGeneration(Prompt(llm_in.docs, llm_in.question), llm_in.gen)
          => llm_out.response = DefaultAnswer)
    /\ ~llm_out.fallback
    /\ llm_out.answer = llm_out.response
    /\ llm_out.answer # KnowledgeBaseAnswer

\* a generation of more than 200 characters was cut to 200
C8_Witness ==
  /\ llm_out.returned
  /\ ~llm_in.gen.raises
  /\ Len(llm_in.gen.text) > 200
  /\ ~StartsWith(llm_in.gen.text, Prompt(llm_in.docs, llm_in.question))
  /\ Len(llm_out.response) = 200

\* the requests of q whose prompt tokens have been counted
PromptCounted(q) ==
  {r \in Requests :
     \/ q[r].pc \in {"call_qa", "count_completion"}
     \/ q[r].pc = "done" /\ q[r].response.status # 503}

\* the requests of q that were answered
Answered(q) == {r \in Requests : q[r].pc = "done" /\ q[r].response.status = 200}

\* the counters hold the prompt tokens of the requests that passed the check
\* and reached the QA call, and the completion tokens of the answered ones
TokenAccounts(q, prompt_tokens, completion_tokens) ==
  /\ prompt_tokens =
       Sum([r \in Requests |-> Len(Encode(q[r].query))], PromptCounted(q))
  /\ completion_tokens =
       Sum([r \in Requests |-> Len(Encode(q[r].response.answer))], Answered(q))
  /\ \A r \in Answered(q) : q[r].response.answer # <<>>
  /\ \A r \in Requests :
        (q[r].pc = "done" /\ q[r].response = Unhandled)
           => r \in PromptCounted(q) \ Answered(q)

\* C9: the prompt counter holds the tokens of every request that passed the
\* initialization check before that request's QA call is made; the completion
\* counter holds the tokens of exactly the answered requests and changes only
\* in the step that follows the return of the QA function; a request whose QA
\* call raises is counted in the first and not in the second; neither
\* counter ever decreases.
C9_TokenAccounting ==
  [][/\ TokenAccounts(req, PROMPT_TOKENS_COUNTER, COMPLETION_TOKENS_COUNTER)
     /\ TokenAccounts(req', PROMPT_TOKENS_COUNTER', COMPLETION_TOKENS_COUNTER')
     /\ PROMPT_TOKENS_COUNTER' >= PROMPT_TOKENS_COUNTER
     /\ COMPLETION_TOKENS_COUNTER' >= COMPLETION_TOKENS_COUNTER
     /\ qa_calls' # qa_calls =>
          /\ PROMPT_TOKENS_COUNTER' = PROMPT_TOKENS_COUNTER
          /\ COMPLETION_TOKENS_COUNTER' = COMPLETION_TOKENS_COUNTER
          /\ \E r \in Requests : req[r].pc = "call_qa" /\ req'[r].pc # "call_qa"
     /\ COMPLETION_TOKENS_COUNTER' # COMPLETION_TOKENS_COUNTER =>
          \E r \in Requests :
             /\ req[r].pc = "count_completion"
             /\ req'[r].response.status = 200
             /\ req'[r].response.answer = req[r].result]_vars

\* one request's QA call raised and another request was answered
C9_Witness ==
  /\ \E r \in Requests : req[r].pc = "done" /\ req[r].response = Unhandled
  /\ \E r \in Requests : req[r].pc = "done" /\ req[r].response.status = 200
  /\ PROMPT_TOKENS_COUNTER > COMPLETION_TOKENS_COUNTER
  /\ COMPLETION_TOKENS_COUNTER > 0

\* C10: nothing coordinates the pipeline and the service: an upload step
\* replaces one object and leaves the others, objects change in no other
\* step (a run that aborted uploads nothing more), and a download step
\* copies the object the bucket holds at that moment, whatever the listing
\* said; so the directory the service loads can hold files of two runs.
C10_NoSnapshotIsolation ==
  [][/\ s3' # s3 =>
          /\ pipe_pc = "upload"
          /\ \E f \in todo :
                /\ DOMAIN s3' = DOMAIN s3 \cup {PIPELINE_PREFIX \o <<"/">> \o f}
                /\ \A k \in DOMAIN s3' :
                      s3'[k] = IF k = PIPELINE_PREFIX \o <<"/">> \o f
                               THEN faiss_index_local[f] ELSE s3[k]
     /\ (pipe_pc = "aborted" /\ run' = run) => (s3' = s3 /\ pipe_pc' = "aborted")
     /\ local_index_dir' # local_index_dir =>
          /\ svc_pc = "download"
          /\ page_idx' = page_idx + 1
          /\ \E rel \in DOMAIN local_index_dir' :
                /\ page[page_idx].Key = S3_FAISS_PREFIX \o <<"/">> \o rel
                /\ local_index_dir'[rel] = s3[page[page_idx].Key]
                /\ \A o \in DOMAIN local_index_dir' \ {rel} :
                      o \in DOMAIN local_index_dir
                      /\ local_index_dir'[o] = local_index_dir[o]]_vars

\* the service has loaded a directory whose index and docstore come from two
\* pipeline runs, while the second run is still uploading
C10_Witness ==
  /\ vectorstore.loaded
  /\ vectorstore.files[IndexFaiss] # vectorstore.files[IndexPkl]
  /\ pipe_pc = "upload"
  /\ run = 2

====
